---- MODULE Spec2Model ----
(***************************************************************************)
(* RESTful collections over an ordered key-value store (Deno.Kv), with     *)
(* secondary indexes maintained by the application layer.                  *)
(* Model of src/lib/collections.ts at the granularity of single store      *)
(* calls: every `await this.kv....` is one atomic step of the store.       *)
(***************************************************************************)
EXTENDS Integers, Sequences, FiniteSets, TLC

(* ------------------------------ bounds -------------------------------- *)
\* number of ids the id generator hands out
MaxIds == 2
\* number of version markers the store hands out (one per successful set)
MaxClock == 4

(* --------------------------- configuration ---------------------------- *)
secondaryIndexSuffix == "$$secondaryIndex"

\* createCollections({ "projects": {}, "tasks": { secondaryIndexes: ... } })
collectionDefs == {"projects", "tasks"}

\* options.secondaryIndexes of a collection: the names of its key builders. The
\* collection events stands for a configuration with more than one index
secondaryIndexes(name) ==
    IF name = "tasks" THEN {"by-project"}
    ELSE IF name = "events" THEN {"by-project", "by-date"}
    ELSE {}

\* the key builder of the demo's "by-project" index, and one that derives the
\* date alone
keyBuilder(indexName, value) ==
    IF indexName = "by-date" THEN <<value["date"]>>
    ELSE IF "time" \in DOMAIN value /\ value["time"] # ""
    THEN <<value["project"], value["date"], value["time"]>>
    ELSE <<value["project"], value["date"], "*">>

(* ------------------------------ values -------------------------------- *)
\* JavaScript null / a present value
None == <<>>
Some(v) == <<v>>
\* the object `{}`, the marker value of an index entry
EmptyObject == [f \in {} |-> ""]

(* ------------------------------ inputs -------------------------------- *)
Projects == {"x", "y"}
Dates == {"d1"}
Times == {"t1"}

\* values of type Task: project and date are required, time is optional
TaskValues ==
    {[project |-> p, date |-> d] : p \in Projects, d \in Dates}
    \cup {[project |-> p, date |-> d, time |-> t] :
            p \in Projects, d \in Dates, t \in Times}

Restrict(value, fields) == [f \in fields |-> value[f]]

\* values of type Partial<Task>
PartialValues == UNION {{Restrict(v, S) : S \in SUBSET (DOMAIN v)} : v \in TaskValues}

\* the "projects" collection is untyped: any JSON object
ProjectValues == {[title |-> "a"], [title |-> "b"]}

\* the request bodies of a collection: values for append and replace, partial
\* values for merge
Values(name) == IF name = "tasks" THEN TaskValues ELSE ProjectValues
Partials(name) == IF name = "tasks" THEN PartialValues ELSE ProjectValues \cup {EmptyObject}

\* the ids produced by createId (ulid: fresh, lexically sortable)
IdOf(n) == "id" \o ToString(n)
Ids == {IdOf(n) : n \in 1..MaxIds}

\* the key-part prefixes a caller may ask listSubcollection for
KeyPrefixes ==
    {SubSeq(keyBuilder("by-project", v), 1, n) : v \in TaskValues, n \in 0..3}

\* the callers: each runs one operation at a time
Procs == {"p1", "p2"}

(* ----------------------- the key-value store -------------------------- *)
Last(s) == s[Len(s)]

\* byte order of the strings that occur as id or key part
StrOrder == <<"*", "by-date", "by-project", "d1", "d2">> \o [n \in 1..MaxIds |-> IdOf(n)] \o <<"t1", "x", "y">>
Rank(s) == CHOOSE i \in 1..Len(StrOrder) : StrOrder[i] = s

\* Deno.Kv orders keys by lexicographic comparison of their parts
RECURSIVE KeyLess(_, _)
KeyLess(a, b) ==
    IF a = <<>> THEN b # <<>>
    ELSE IF b = <<>> THEN FALSE
    ELSE IF Head(a) = Head(b) THEN KeyLess(Tail(a), Tail(b))
    ELSE Rank(Head(a)) < Rank(Head(b))

RECURSIVE SortKeys(_)
SortKeys(S) ==
    IF S = {} THEN <<>>
    ELSE LET m == CHOOSE k \in S : \A o \in S \ {k} : KeyLess(k, o)
         IN <<m>> \o SortKeys(S \ {m})

IsPrefix(prefix, key) ==
    /\ Len(prefix) <= Len(key)
    /\ SubSeq(key, 1, Len(prefix)) = prefix

\* kv.get(key): value null and versionstamp null when the key is absent
KvGet(store, key) ==
    IF key \in DOMAIN store
    THEN [value |-> Some(store[key].value), versionstamp |-> store[key].versionstamp]
    ELSE [value |-> None, versionstamp |-> ""]

\* kv.set(key, value): the key gets a new versionstamp, no other key changes
KvSet(store, key, value, stamp) ==
    [k \in DOMAIN store \cup {key} |->
        IF k = key THEN [value |-> value, versionstamp |-> stamp] ELSE store[k]]

\* kv.delete(key): deleting an absent key is not an error
KvDelete(store, key) == [k \in DOMAIN store \ {key} |-> store[k]]

\* kv.list that returns only the keys one component longer than the prefix
KvListChildren(store, prefix) ==
    SortKeys({k \in DOMAIN store : IsPrefix(prefix, k) /\ Len(k) = Len(prefix) + 1})

\* kv.list({prefix}): the keys that extend the prefix, in key order
KvList(store, prefix) ==
    SortKeys({k \in DOMAIN store : IsPrefix(prefix, k) /\ Len(k) > Len(prefix)})

(* ------------------------- results with metadata ---------------------- *)
\* object spread { ...a, ...b }: the fields of b override those of a
Spread(a, b) ==
    [f \in DOMAIN a \cup DOMAIN b |-> IF f \in DOMAIN b THEN b[f] ELSE a[f]]

Metadata(id, versionstamp) ==
    [f \in {"$$id", "$$versionstamp"} |-> IF f = "$$id" THEN id ELSE versionstamp]

\* { $$id: id, $$versionstamp: versionstamp, ...value }
ResultWithMetadata(id, versionstamp, value) == Spread(Metadata(id, versionstamp), value)

(* ------------------------------- state -------------------------------- *)
VARIABLES
    kv,      \* the store: key |-> [value, versionstamp]
    clock,   \* the last versionstamp the store handed out
    nextId,  \* the number of the next id createId returns
    proc,    \* the activation of the operation each caller runs
    request  \* the HTTP request the server handles, if the callers are its handlers

vars == <<kv, clock, nextId, proc, request>>

\* the operations are called directly, not through the server
NoRequest == [method |-> "", path |-> <<>>, body |-> EmptyObject]

NoFrame ==
    [pc |-> "idle", op |-> "", name |-> "", id |-> "", mergeValue |-> EmptyObject,
     value |-> EmptyObject, oldValue |-> None, getVersionstamp |-> "",
     setVersionstamp |-> "", pending |-> {}, settling |-> "", subcollection |-> "",
     keys |-> <<>>, hits |-> <<>>, pos |-> 0, result |-> <<>>]

Init ==
    /\ kv = [k \in {} |-> EmptyObject]
    /\ clock = 0
    /\ nextId = 1
    /\ proc = [p \in Procs |-> NoFrame]
    /\ request = NoRequest

\* a caller may start an operation when its previous one has returned or thrown
Ready(p) == proc[p].pc \in {"idle", "done", "failed"}

\* the activation of caller p becomes frame; no operation touches the request
Enter(p, frame) == proc' = [proc EXCEPT ![p] = frame] /\ UNCHANGED request

(* ------------------------ secondary index keys ------------------------ *)
\* one key per registered index: [name + suffix, indexName, ...keyBuilder(value), id]
buildSecondaryKeysWithoutId(name, id, value) ==
    {<<name \o secondaryIndexSuffix, indexName>> \o keyBuilder(indexName, value) :
        indexName \in secondaryIndexes(name)}

buildSecondaryKeys(name, id, value) ==
    {<<name \o secondaryIndexSuffix, indexName>> \o keyBuilder(indexName, value) \o <<id>> :
        indexName \in secondaryIndexes(name)}

(* ----------------------------- operations ----------------------------- *)
\* list() that collects the records from the last key to the first
listResultDescending(store, name) ==
    LET hits == KvList(store, <<name>>)
    IN [i \in 1..Len(hits) |->
            LET key == hits[Len(hits) + 1 - i]
            IN ResultWithMetadata(Last(key), store[key].versionstamp, store[key].value)]

\* list() on a store that does not change meanwhile: one scan of the prefix [name]
listResult(store, name) ==
    LET hits == KvList(store, <<name>>)
    IN [i \in 1..Len(hits) |->
            ResultWithMetadata(Last(hits[i]), store[hits[i]].versionstamp, store[hits[i]].value)]

list(p, name) ==
    /\ Ready(p)
    /\ Enter(p, [NoFrame EXCEPT
            !.pc = "done", !.op = "list", !.name = name,
            !.hits = KvList(kv, <<name>>),
            !.result = listResult(kv, name)])
    /\ UNCHANGED <<kv, clock, nextId>>

\* listSubcollection(): the scan of the index prefix
listSubcollection(p, name, subcollection, keys) ==
    /\ Ready(p)
    /\ LET hits == KvList(kv, <<name \o secondaryIndexSuffix, subcollection>> \o keys)
       IN Enter(p, [NoFrame EXCEPT
            !.pc = IF hits = <<>> THEN "done" ELSE "fetch",
            !.op = "listSubcollection", !.name = name,
            !.subcollection = subcollection, !.keys = keys,
            !.hits = hits, !.pos = 1])
    /\ UNCHANGED <<kv, clock, nextId>>

\* the loop body without the null check: an element is pushed for every index entry
\* the loop body that takes the version marker from the index entry
listSubcollectionItemOfEntry(store, name, response, key) ==
    LET id == Last(key)
        kvGetResult == KvGet(store, <<name, id>>)
    IN IF kvGetResult.value = None
       THEN response
       ELSE Append(response,
                ResultWithMetadata(id, KvGet(store, key).versionstamp,
                                   kvGetResult.value[1]))

listSubcollectionItemNoSkip(store, name, response, key) ==
    LET id == Last(key)
        kvGetResult == KvGet(store, <<name, id>>)
    IN Append(response,
            ResultWithMetadata(id, kvGetResult.versionstamp,
                IF kvGetResult.value = None THEN EmptyObject ELSE kvGetResult.value[1]))

\* listSubcollection(): the body of the loop for one index entry: the kv.get of the
\* primary record, skipped when it is null, pushed with its metadata otherwise
listSubcollectionItem(store, name, response, key) ==
    LET id == Last(key)
        kvGetResult == KvGet(store, <<name, id>>)
    IN IF kvGetResult.value = None
       THEN response
       ELSE Append(response,
                ResultWithMetadata(id, kvGetResult.versionstamp, kvGetResult.value[1]))

listSubcollectionGet(p) ==
    /\ proc[p].pc = "fetch"
    /\ LET f == proc[p]
       IN Enter(p, [f EXCEPT
            !.pc = IF f.pos = Len(f.hits) THEN "done" ELSE "fetch",
            !.pos = f.pos + 1,
            !.result = listSubcollectionItem(kv, f.name, f.result, f.hits[f.pos])])
    /\ UNCHANGED <<kv, clock, nextId>>

\* listSubcollection() on a store that does not change meanwhile
RECURSIVE listSubcollectionLoop(_, _, _, _)
listSubcollectionLoop(store, name, hits, response) ==
    IF hits = <<>> THEN response
    ELSE listSubcollectionLoop(store, name, Tail(hits),
            listSubcollectionItem(store, name, response, Head(hits)))

listSubcollectionResult(store, name, subcollection, keys) ==
    listSubcollectionLoop(store, name,
        KvList(store, <<name \o secondaryIndexSuffix, subcollection>> \o keys), <<>>)

\* get(id) that answers an absent id with an object holding the metadata alone
getResultNeverNull(store, name, id) ==
    LET kvGetResult == KvGet(store, <<name, id>>)
    IN IF kvGetResult.value = None
       THEN Some(Metadata(id, kvGetResult.versionstamp))
       ELSE Some(ResultWithMetadata(id, kvGetResult.versionstamp, kvGetResult.value[1]))

\* get(id): null when the primary record is absent
getResult(store, name, id) ==
    LET kvGetResult == KvGet(store, <<name, id>>)
    IN IF kvGetResult.value = None
       THEN None
       ELSE Some(ResultWithMetadata(id, kvGetResult.versionstamp, kvGetResult.value[1]))

\* get() that writes the record it read back to the store
getWritesBack(p, name, id) ==
    /\ Ready(p)
    /\ clock < MaxClock
    /\ <<name, id>> \in DOMAIN kv
    /\ kv' = KvSet(kv, <<name, id>>, kv[<<name, id>>].value, ToString(clock + 1))
    /\ clock' = clock + 1
    /\ Enter(p, [NoFrame EXCEPT
            !.pc = "done", !.op = "get", !.name = name, !.id = id,
            !.result = getResult(kv, name, id)])
    /\ UNCHANGED nextId

get(p, name, id) ==
    /\ Ready(p)
    /\ Enter(p, [NoFrame EXCEPT
            !.pc = "done", !.op = "get", !.name = name, !.id = id,
            !.result = getResult(kv, name, id)])
    /\ UNCHANGED <<kv, clock, nextId>>

\* append that issues no index write
appendNoIndex(p, name, value) ==
    /\ Ready(p)
    /\ nextId <= MaxIds
    /\ clock < MaxClock
    /\ LET id == IdOf(nextId)
       IN /\ kv' = KvSet(kv, <<name, id>>, value, ToString(clock + 1))
          /\ Enter(p, [NoFrame EXCEPT
                !.pc = "appendSecondaryKeys", !.op = "append", !.name = name,
                !.id = id, !.value = value,
                !.setVersionstamp = ToString(clock + 1),
                !.pending = {}])
    /\ clock' = clock + 1
    /\ nextId' = nextId + 1

\* append that returns the versionstamp the store had before its write
appendStaleVersionstamp(p, name, value) ==
    /\ Ready(p)
    /\ nextId <= MaxIds
    /\ clock < MaxClock
    /\ LET id == IdOf(nextId)
       IN /\ kv' = KvSet(kv, <<name, id>>, value, ToString(clock + 1))
          /\ Enter(p, [NoFrame EXCEPT
                !.pc = "appendSecondaryKeys", !.op = "append", !.name = name,
                !.id = id, !.value = value,
                !.setVersionstamp = ToString(clock),
                !.pending = buildSecondaryKeys(name, id, value)])
    /\ clock' = clock + 1
    /\ nextId' = nextId + 1

\* append(value): createId and the primary kv.set; the index writes are then issued
\* append() whose first store calls write the index entries, the primary record
\* not being written yet
appendIndexFirst(p, name, value) ==
    /\ Ready(p)
    /\ nextId <= MaxIds
    /\ clock < MaxClock
    /\ LET id == IdOf(nextId)
           keys == buildSecondaryKeys(name, id, value)
       IN /\ kv' = [k \in DOMAIN kv \cup keys |->
                        IF k \in keys
                        THEN [value |-> EmptyObject, versionstamp |-> ToString(clock + 1)]
                        ELSE kv[k]]
          /\ Enter(p, [NoFrame EXCEPT
                !.pc = "appendSecondaryKeys", !.op = "append", !.name = name,
                !.id = id, !.value = value,
                !.setVersionstamp = ToString(clock + 1)])
    /\ clock' = clock + 1
    /\ nextId' = nextId + 1

append(p, name, value) ==
    /\ Ready(p)
    /\ nextId <= MaxIds
    /\ clock < MaxClock
    /\ LET id == IdOf(nextId)
       IN /\ kv' = KvSet(kv, <<name, id>>, value, ToString(clock + 1))
          /\ Enter(p, [NoFrame EXCEPT
                !.pc = "appendSecondaryKeys", !.op = "append", !.name = name,
                !.id = id, !.value = value,
                !.setVersionstamp = ToString(clock + 1),
                !.pending = buildSecondaryKeys(name, id, value)])
    /\ clock' = clock + 1
    /\ nextId' = nextId + 1

\* replace without the not-found return
replaceNoCheck(p, name, id, value) ==
    /\ Ready(p)
    /\ LET kvGetResult == KvGet(kv, <<name, id>>)
       IN Enter(p, [NoFrame EXCEPT
            !.pc = "set",
            !.op = "replace", !.name = name, !.id = id, !.value = value,
            !.oldValue = kvGetResult.value,
            !.getVersionstamp = kvGetResult.versionstamp,
            !.result = None])
    /\ UNCHANGED <<kv, clock, nextId>>

\* replace(id, value): the kv.get and the not-found return
replaceUpserts(p, name, id, value) ==
    /\ Ready(p)
    /\ LET kvGetResult == KvGet(kv, <<name, id>>)
       IN IF kvGetResult.value = None
          THEN /\ clock < MaxClock
               /\ kv' = KvSet(kv, <<name, id>>, value, ToString(clock + 1))
               /\ clock' = clock + 1
               /\ Enter(p, [NoFrame EXCEPT
                     !.pc = "appendSecondaryKeys", !.op = "replace", !.name = name,
                     !.id = id, !.value = value,
                     !.setVersionstamp = ToString(clock + 1),
                     !.pending = buildSecondaryKeys(name, id, value)])
               /\ UNCHANGED nextId
          ELSE /\ Enter(p, [NoFrame EXCEPT
                     !.pc = "set",
                     !.op = "replace", !.name = name, !.id = id, !.value = value,
                     !.oldValue = kvGetResult.value,
                     !.getVersionstamp = kvGetResult.versionstamp,
                     !.result = None])
               /\ UNCHANGED <<kv, clock, nextId>>

replace(p, name, id, value) ==
    /\ Ready(p)
    /\ LET kvGetResult == KvGet(kv, <<name, id>>)
       IN Enter(p, [NoFrame EXCEPT
            !.pc = IF kvGetResult.value = None THEN "done" ELSE "set",
            !.op = "replace", !.name = name, !.id = id, !.value = value,
            !.oldValue = kvGetResult.value,
            !.getVersionstamp = kvGetResult.versionstamp,
            !.result = None])
    /\ UNCHANGED <<kv, clock, nextId>>

\* merge with the spread the wrong way round: the old fields override the partial ones
mergeOldOverrides(p, name, id, mergeValue) ==
    /\ Ready(p)
    /\ LET kvGetResult == KvGet(kv, <<name, id>>)
       IN Enter(p, [NoFrame EXCEPT
            !.pc = IF kvGetResult.value = None THEN "done" ELSE "set",
            !.op = "merge", !.name = name, !.id = id, !.mergeValue = mergeValue,
            !.value = IF kvGetResult.value = None
                      THEN EmptyObject
                      ELSE Spread(mergeValue, kvGetResult.value[1]),
            !.oldValue = kvGetResult.value,
            !.getVersionstamp = kvGetResult.versionstamp,
            !.result = None])
    /\ UNCHANGED <<kv, clock, nextId>>

\* merge(id, mergeValue): the kv.get, the not-found return and the merged value
merge(p, name, id, mergeValue) ==
    /\ Ready(p)
    /\ LET kvGetResult == KvGet(kv, <<name, id>>)
       IN Enter(p, [NoFrame EXCEPT
            !.pc = IF kvGetResult.value = None THEN "done" ELSE "set",
            !.op = "merge", !.name = name, !.id = id, !.mergeValue = mergeValue,
            !.value = IF kvGetResult.value = None
                      THEN EmptyObject
                      ELSE Spread(kvGetResult.value[1], mergeValue),
            !.oldValue = kvGetResult.value,
            !.getVersionstamp = kvGetResult.versionstamp,
            !.result = None])
    /\ UNCHANGED <<kv, clock, nextId>>

\* replace/merge that deletes the index entries of the new value instead of the old one
kvSetDeletesNewKeys(p) ==
    /\ proc[p].pc = "set"
    /\ clock < MaxClock
    /\ LET f == proc[p]
       IN /\ kv' = KvSet(kv, <<f.name, f.id>>, f.value, ToString(clock + 1))
          /\ Enter(p, [f EXCEPT
                !.pc = "deleteSecondaryKeys",
                !.setVersionstamp = ToString(clock + 1),
                !.pending = buildSecondaryKeys(f.name, f.id, f.value)])
    /\ clock' = clock + 1
    /\ UNCHANGED nextId

\* replace/merge that issue the writes of the new index entries right after the
\* primary write, with the old entries still in place
kvSetWritesFirst(p) ==
    /\ proc[p].pc = "set"
    /\ clock < MaxClock
    /\ LET f == proc[p]
       IN /\ kv' = KvSet(kv, <<f.name, f.id>>, f.value, ToString(clock + 1))
          /\ Enter(p, [f EXCEPT
                !.pc = "appendSecondaryKeys",
                !.setVersionstamp = ToString(clock + 1),
                !.pending = buildSecondaryKeys(f.name, f.id, f.value)])
    /\ clock' = clock + 1
    /\ UNCHANGED nextId

\* replace/merge: the primary kv.set; the deletes of the old index entries are then issued
kvSet(p) ==
    /\ proc[p].pc = "set"
    /\ clock < MaxClock
    /\ LET f == proc[p]
       IN /\ kv' = KvSet(kv, <<f.name, f.id>>, f.value, ToString(clock + 1))
          /\ Enter(p, [f EXCEPT
                !.pc = "deleteSecondaryKeys",
                !.setVersionstamp = ToString(clock + 1),
                !.pending = buildSecondaryKeys(f.name, f.id, f.oldValue[1])])
    /\ clock' = clock + 1
    /\ UNCHANGED nextId

\* delete(id) that issues the deletes of the index entries before the primary
\* record is deleted
deleteIndexFirst(p, name, id) ==
    /\ Ready(p)
    /\ LET kvGetResult == KvGet(kv, <<name, id>>)
       IN Enter(p, [NoFrame EXCEPT
            !.pc = IF kvGetResult.value = None THEN "done" ELSE "deleteSecondaryKeys",
            !.op = "delete", !.name = name, !.id = id,
            !.oldValue = kvGetResult.value,
            !.getVersionstamp = kvGetResult.versionstamp,
            !.pending = IF kvGetResult.value = None THEN {}
                        ELSE buildSecondaryKeys(name, id, kvGetResult.value[1]),
            !.result = None])
    /\ UNCHANGED <<kv, clock, nextId>>

\* delete(id) that keeps the value it read but not the versionstamp of that read
deleteDropsVersionstamp(p, name, id) ==
    /\ Ready(p)
    /\ LET kvGetResult == KvGet(kv, <<name, id>>)
       IN Enter(p, [NoFrame EXCEPT
            !.pc = IF kvGetResult.value = None THEN "done" ELSE "kvDelete",
            !.op = "delete", !.name = name, !.id = id,
            !.oldValue = kvGetResult.value,
            !.result = None])
    /\ UNCHANGED <<kv, clock, nextId>>

\* delete(id): the kv.get and the not-found return
delete(p, name, id) ==
    /\ Ready(p)
    /\ LET kvGetResult == KvGet(kv, <<name, id>>)
       IN Enter(p, [NoFrame EXCEPT
            !.pc = IF kvGetResult.value = None THEN "done" ELSE "kvDelete",
            !.op = "delete", !.name = name, !.id = id,
            !.oldValue = kvGetResult.value,
            !.getVersionstamp = kvGetResult.versionstamp,
            !.result = None])
    /\ UNCHANGED <<kv, clock, nextId>>

\* delete that leaves the index entries in place
kvDeleteKeepsIndex(p) ==
    /\ proc[p].pc = "kvDelete"
    /\ LET f == proc[p]
       IN /\ kv' = KvDelete(kv, <<f.name, f.id>>)
          /\ Enter(p, [f EXCEPT !.pc = "deleteSecondaryKeys", !.pending = {}])
    /\ UNCHANGED <<clock, nextId>>

\* delete(id): the primary kv.delete; the deletes of the index entries are then issued
kvDelete(p) ==
    /\ proc[p].pc = "kvDelete"
    /\ LET f == proc[p]
       IN /\ kv' = KvDelete(kv, <<f.name, f.id>>)
          /\ Enter(p, [f EXCEPT
                !.pc = "deleteSecondaryKeys",
                !.pending = buildSecondaryKeys(f.name, f.id, f.oldValue[1])])
    /\ UNCHANGED <<clock, nextId>>

\* deleteSecondaryKeys that removes the entries of every id under the key parts
deleteSecondaryKeysOfKeyParts(p, key) ==
    /\ proc[p].pc = "deleteSecondaryKeys"
    /\ key \in proc[p].pending
    /\ kv' = [k \in {k \in DOMAIN kv :
                        ~(Len(k) = Len(key)
                          /\ SubSeq(k, 1, Len(k) - 1) = SubSeq(key, 1, Len(key) - 1))} |->
                kv[k]]
    /\ Enter(p, [proc[p] EXCEPT !.pending = @ \ {key}])
    /\ UNCHANGED <<clock, nextId>>

\* deleteSecondaryKeys whose kv.delete calls are never made
deleteSecondaryKeysLost(p, key) ==
    /\ proc[p].pc = "deleteSecondaryKeys"
    /\ key \in proc[p].pending
    /\ Enter(p, [proc[p] EXCEPT !.pending = @ \ {key}])
    /\ UNCHANGED <<kv, clock, nextId>>

\* deleteSecondaryKeys: one of the issued kv.delete calls takes effect
deleteSecondaryKeys(p, key) ==
    /\ proc[p].pc = "deleteSecondaryKeys"
    /\ key \in proc[p].pending
    /\ kv' = KvDelete(kv, key)
    /\ Enter(p, [proc[p] EXCEPT !.pending = @ \ {key}])
    /\ UNCHANGED <<clock, nextId>>

\* appendSecondaryKeys whose kv.set calls are never made
appendSecondaryKeysLost(p, key) ==
    /\ proc[p].pc = "appendSecondaryKeys"
    /\ key \in proc[p].pending
    /\ Enter(p, [proc[p] EXCEPT !.pending = @ \ {key}])
    /\ UNCHANGED <<kv, clock, nextId>>

\* appendSecondaryKeys: one of the issued kv.set calls takes effect
appendSecondaryKeys(p, key) ==
    /\ proc[p].pc = "appendSecondaryKeys"
    /\ key \in proc[p].pending
    /\ clock < MaxClock
    /\ kv' = KvSet(kv, key, EmptyObject, ToString(clock + 1))
    /\ Enter(p, [proc[p] EXCEPT !.pending = @ \ {key}])
    /\ clock' = clock + 1
    /\ UNCHANGED nextId

\* replace/merge that returns after the deletes, without writing the new index entries
promiseAllSkipsAppend(p) ==
    /\ proc[p].pc \in {"deleteSecondaryKeys", "appendSecondaryKeys"}
    /\ proc[p].pending = {}
    /\ LET f == proc[p]
       IN Enter(p,
            IF f.pc = "deleteSecondaryKeys" /\ f.op = "delete"
            THEN [f EXCEPT !.pc = "done",
                           !.result = Some(ResultWithMetadata(f.id, f.getVersionstamp,
                                                              f.oldValue[1]))]
            ELSE [f EXCEPT !.pc = "done",
                           !.result = Some(ResultWithMetadata(f.id, f.setVersionstamp,
                                                              f.value))])
    /\ UNCHANGED <<kv, clock, nextId>>

\* replace/merge that derives the new index entries from the old value
promiseAllStaleKeys(p) ==
    /\ proc[p].pc \in {"deleteSecondaryKeys", "appendSecondaryKeys"}
    /\ proc[p].pending = {}
    /\ LET f == proc[p]
       IN Enter(p,
            IF f.pc = "deleteSecondaryKeys" /\ f.op \in {"replace", "merge"}
            THEN [f EXCEPT !.pc = "appendSecondaryKeys",
                           !.pending = buildSecondaryKeys(f.name, f.id, f.oldValue[1])]
            ELSE IF f.pc = "deleteSecondaryKeys"
            THEN [f EXCEPT !.pc = "done",
                           !.result = Some(ResultWithMetadata(f.id, f.getVersionstamp,
                                                              f.oldValue[1]))]
            ELSE [f EXCEPT !.pc = "done",
                           !.result = Some(ResultWithMetadata(f.id, f.setVersionstamp,
                                                              f.value))])
    /\ UNCHANGED <<kv, clock, nextId>>

\* await Promise.all(promises) resolves: the operation goes on to its next statement
promiseAll(p) ==
    /\ proc[p].pc \in {"deleteSecondaryKeys", "appendSecondaryKeys"}
    /\ proc[p].pending = {}
    /\ LET f == proc[p]
       IN Enter(p,
            IF f.pc = "deleteSecondaryKeys" /\ f.op \in {"replace", "merge"}
            THEN [f EXCEPT !.pc = "appendSecondaryKeys",
                           !.pending = buildSecondaryKeys(f.name, f.id, f.value)]
            ELSE IF f.pc = "deleteSecondaryKeys"
            THEN [f EXCEPT !.pc = "done",
                           !.result = Some(ResultWithMetadata(f.id, f.getVersionstamp,
                                                              f.oldValue[1]))]
            ELSE [f EXCEPT !.pc = "done",
                           !.result = Some(ResultWithMetadata(f.id, f.setVersionstamp,
                                                              f.value))])
    /\ UNCHANGED <<kv, clock, nextId>>

(* --------------------------- store failures --------------------------- *)
\* append that checks the outcome of the primary kv.set only after the index writes
appendThrowsAfterIndexWrites(p, name, value) ==
    /\ Ready(p)
    /\ nextId <= MaxIds
    /\ clock < MaxClock
    /\ LET keys == buildSecondaryKeys(name, IdOf(nextId), value)
       IN kv' = [k \in DOMAIN kv \cup keys |->
                    IF k \in keys
                    THEN [value |-> EmptyObject, versionstamp |-> ToString(clock + 1)]
                    ELSE kv[k]]
    /\ Enter(p, [NoFrame EXCEPT
            !.pc = "failed", !.op = "append", !.name = name,
            !.id = IdOf(nextId), !.value = value])
    /\ nextId' = nextId + 1
    /\ clock' = clock + 1

\* append(value): the primary kv.set reports ok = false, append throws
appendThrows(p, name, value) ==
    /\ Ready(p)
    /\ nextId <= MaxIds
    /\ Enter(p, [NoFrame EXCEPT
            !.pc = "failed", !.op = "append", !.name = name,
            !.id = IdOf(nextId), !.value = value])
    /\ nextId' = nextId + 1
    /\ UNCHANGED <<kv, clock>>

\* replace/merge that delete the old index entries before the outcome of the
\* primary kv.set is checked
kvSetThrowsAfterIndexDeletes(p) ==
    /\ proc[p].pc = "set"
    /\ LET keys == buildSecondaryKeys(proc[p].name, proc[p].id, proc[p].oldValue[1])
       IN kv' = [k \in DOMAIN kv \ keys |-> kv[k]]
    /\ Enter(p, [proc[p] EXCEPT !.pc = "failed"])
    /\ UNCHANGED <<clock, nextId>>

\* replace/merge: the primary kv.set reports ok = false, the operation throws
kvSetThrows(p) ==
    /\ proc[p].pc = "set"
    /\ Enter(p, [proc[p] EXCEPT !.pc = "failed"])
    /\ UNCHANGED <<kv, clock, nextId>>

\* delete(id): the primary kv.delete rejects, delete throws
kvDeleteThrows(p) ==
    /\ proc[p].pc = "kvDelete"
    /\ Enter(p, [proc[p] EXCEPT !.pc = "failed"])
    /\ UNCHANGED <<kv, clock, nextId>>

\* a rejected index call answered by a compensating write that puts the primary
\* record back as the operation found it
promiseAllThrowsRollsBack(p, key) ==
    /\ proc[p].pc \in {"deleteSecondaryKeys", "appendSecondaryKeys"}
    /\ key \in proc[p].pending
    /\ LET f == proc[p]
       IN kv' = IF f.oldValue = None
                THEN KvDelete(kv, <<f.name, f.id>>)
                ELSE KvSet(kv, <<f.name, f.id>>, f.oldValue[1], f.getVersionstamp)
    /\ Enter(p, [proc[p] EXCEPT !.pc = "failed", !.pending = @ \ {key}])
    /\ UNCHANGED <<clock, nextId>>

\* one of the issued index calls rejects: Promise.all rejects and the operation throws
promiseAllThrows(p, key) ==
    /\ proc[p].pc \in {"deleteSecondaryKeys", "appendSecondaryKeys"}
    /\ key \in proc[p].pending
    /\ Enter(p, [proc[p] EXCEPT !.pc = "failed", !.pending = @ \ {key},
                                 !.settling = proc[p].pc])
    /\ UNCHANGED <<kv, clock, nextId>>

\* Promise.all has rejected and the operation has thrown: the other calls it had
\* issued are still with the store, and one of them takes effect
settle(p, key) ==
    /\ proc[p].pc = "failed"
    /\ key \in proc[p].pending
    /\ IF proc[p].settling = "deleteSecondaryKeys"
       THEN /\ kv' = KvDelete(kv, key)
            /\ UNCHANGED clock
       ELSE /\ clock < MaxClock
            /\ kv' = KvSet(kv, key, EmptyObject, ToString(clock + 1))
            /\ clock' = clock + 1
    /\ Enter(p, [proc[p] EXCEPT !.pending = @ \ {key}])
    /\ UNCHANGED nextId

(* --------------------------- specifications --------------------------- *)
\* caller p starts or continues a reading operation; in is the set of requests
Read(p, in) ==
    \/ \E name \in in.names : list(p, name)
    \/ \E name \in in.names, id \in Ids : get(p, name, id)

\* caller p starts or continues a subcollection listing; in is the set of requests
Scan(p, in) ==
    \/ \E name \in in.names : \E subcollection \in secondaryIndexes(name),
          keys \in in.keys : listSubcollection(p, name, subcollection, keys)
    \/ listSubcollectionGet(p)

\* caller p starts or continues a mutating operation; in is the set of requests
Write(p, in) ==
    \/ \E name \in in.names : \E value \in in.values[name] : append(p, name, value)
    \/ \E name \in in.names, id \in Ids : \E value \in in.values[name] :
          replace(p, name, id, value)
    \/ \E name \in in.names, id \in Ids : \E mergeValue \in in.partials[name] :
          merge(p, name, id, mergeValue)
    \/ kvSet(p)
    \/ \E name \in in.names, id \in Ids : delete(p, name, id)
    \/ kvDelete(p)
    \/ \E key \in proc[p].pending : deleteSecondaryKeys(p, key)
    \/ \E key \in proc[p].pending : appendSecondaryKeys(p, key)
    \/ promiseAll(p)

\* a store call of caller p fails
Throw(p, in) ==
    \/ \E name \in in.names : \E value \in in.values[name] : appendThrows(p, name, value)
    \/ kvSetThrows(p)
    \/ kvDeleteThrows(p)
    \/ \E key \in proc[p].pending : promiseAllThrows(p, key)

\* every request on every configured collection
Requests ==
    [names |-> collectionDefs,
     values |-> [name \in collectionDefs |-> Values(name)],
     partials |-> [name \in collectionDefs |-> Partials(name)],
     keys |-> KeyPrefixes]

\* non-overlapping operations: one caller, every store call succeeds
Next == Read("p1", Requests) \/ Scan("p1", Requests) \/ Write("p1", Requests)

Spec == Init /\ [][Next]_vars

\* the requests of the overlapping callers: the indexed collection, a partial
\* value that changes the derived key and one that keeps it
RequestsConc ==
    [names |-> {"tasks"},
     values |-> [name \in {"tasks"} |-> {v \in TaskValues : "time" \notin DOMAIN v}],
     partials |-> [name \in {"tasks"} |-> {[project |-> "y"]}],
     keys |-> {<<"x">>}]

\* a reader overlapping a writer whose store calls may fail
NextConc ==
    \/ Write("p1", RequestsConc)
    \/ Throw("p1", RequestsConc)
    \/ Scan("p2", RequestsConc)

SpecConc == Init /\ [][NextConc]_vars

\* caller p starts or continues a replace, merge or delete; in is the set of requests
Mutate(p, in) ==
    \/ \E name \in in.names, id \in Ids : \E value \in in.values[name] :
          replace(p, name, id, value)
    \/ \E name \in in.names, id \in Ids : \E mergeValue \in in.partials[name] :
          merge(p, name, id, mergeValue)
    \/ kvSet(p)
    \/ \E name \in in.names, id \in Ids : delete(p, name, id)
    \/ kvDelete(p)
    \/ \E key \in proc[p].pending : deleteSecondaryKeys(p, key)
    \/ \E key \in proc[p].pending : appendSecondaryKeys(p, key)
    \/ promiseAll(p)

\* the requests of two racing callers: values that change the derived key and a
\* value with an empty time, which derives the same key as the value without time
RequestsRace ==
    [names |-> {"tasks"},
     values |-> [name \in {"tasks"} |->
                    {[project |-> "x", date |-> "d1"], [project |-> "y", date |-> "d1"],
                     [project |-> "x", date |-> "d1", time |-> ""]}],
     partials |-> [name \in {"tasks"} |-> {[project |-> "y"], [time |-> ""]}],
     keys |-> {<<"x">>}]

\* the store as a completed append of one task left it. Version markers are
\* opaque: the two that append was given are numbered below the ones the store
\* hands out from here on
StoreOfOneTask ==
    KvSet(KvSet([k \in {} |-> EmptyObject],
            <<"tasks", IdOf(1)>>, [project |-> "x", date |-> "d1"], ToString(-1)),
        <<"tasks" \o secondaryIndexSuffix, "by-project", "x", "d1", "*", IdOf(1)>>,
        EmptyObject, ToString(0))

InitRace ==
    /\ kv = StoreOfOneTask
    /\ clock = 0
    /\ nextId = 2
    /\ proc = [p \in Procs |-> NoFrame]
    /\ request = NoRequest

\* two callers, each running one replace, merge or delete, interleaved at the
\* granularity of single store calls; no store call fails
NextRace == \E p \in Procs : proc[p].pc # "done" /\ Mutate(p, RequestsRace)

SpecRace == InitRace /\ [][NextRace]_vars

\* the requests of two callers whose operations may be appends
RequestsPair ==
    [names |-> {"tasks"},
     values |-> [name \in {"tasks"} |->
                    {[project |-> "x", date |-> "d1"], [project |-> "y", date |-> "d1"]}],
     partials |-> [name \in {"tasks"} |-> {[project |-> "y"]}],
     keys |-> {<<"x">>}]

\* two callers, each running one append, replace, merge or delete, interleaved at
\* the granularity of single store calls; no store call fails
NextPair == \E p \in Procs : proc[p].pc # "done" /\ Write(p, RequestsPair)

SpecPair == InitRace /\ [][NextPair]_vars

\* the index names a caller may pass to listSubcollection: the one registered for
\* tasks and one that is not
SubcollectionArguments == {"by-project", "by-date"}

\* the read operations with arbitrary arguments
ReadAny(p, in) ==
    \/ \E name \in in.names : list(p, name)
    \/ \E name \in in.names, id \in Ids : get(p, name, id)
    \/ \E name \in in.names : \E subcollection \in SubcollectionArguments,
          keys \in in.keys : listSubcollection(p, name, subcollection, keys)
    \/ listSubcollectionGet(p)

\* a reader running read operations one after the other while another caller
\* runs one replace, merge or delete
NextRead ==
    \/ ReadAny("p1", RequestsRace)
    \/ proc["p2"].pc # "done" /\ Mutate("p2", RequestsRace)

SpecRead == InitRace /\ [][NextRead]_vars

\* the steps of append, replace and merge: an execution without delete
Grow(p, in) ==
    \/ \E name \in in.names : \E value \in in.values[name] : append(p, name, value)
    \/ \E name \in in.names, id \in Ids : \E value \in in.values[name] :
          replace(p, name, id, value)
    \/ \E name \in in.names, id \in Ids : \E mergeValue \in in.partials[name] :
          merge(p, name, id, mergeValue)
    \/ kvSet(p)
    \/ \E key \in proc[p].pending : deleteSecondaryKeys(p, key)
    \/ \E key \in proc[p].pending : appendSecondaryKeys(p, key)
    \/ promiseAll(p)

\* two callers running appends, replaces and merges one after the other,
\* interleaved at the granularity of single store calls; no store call fails
NextGrow == \E p \in Procs : Grow(p, RequestsPair)

SpecGrow == InitRace /\ [][NextGrow]_vars

\* request bodies that themselves carry a field named like a metadata field: the
\* handlers pass any JSON object of the request on to the operation
RequestsMeta ==
    [names |-> {"tasks"},
     values |-> [name \in {"tasks"} |->
                    {[project |-> "x", date |-> "d1"],
                     Spread([project |-> "x", date |-> "d1"], [f \in {"$$id"} |-> "mine"])}],
     partials |-> [name \in {"tasks"} |-> {[f \in {"$$versionstamp"} |-> "mine"]}],
     keys |-> {<<"x">>}]

NextMeta ==
    Read("p1", RequestsMeta) \/ Scan("p1", RequestsMeta) \/ Write("p1", RequestsMeta)

SpecMeta == Init /\ [][NextMeta]_vars

\* a configuration in which the name of one collection is the name of another
\* followed by the suffix of the index namespace: createCollections takes any key
\* of the configuration object as a collection name
RequestsNames ==
    [names |-> {"tasks", "tasks" \o secondaryIndexSuffix},
     values |-> [name \in {"tasks", "tasks" \o secondaryIndexSuffix} |->
                    {[project |-> "x", date |-> "d1"], [project |-> "y", date |-> "d1"]}],
     partials |-> [name \in {"tasks", "tasks" \o secondaryIndexSuffix} |->
                    {[project |-> "y"]}],
     keys |-> {<<"x">>}]

NextNames ==
    Read("p1", RequestsNames) \/ Scan("p1", RequestsNames) \/ Write("p1", RequestsNames)

SpecNames == Init /\ [][NextNames]_vars

\* requests on a collection with two indexes
RequestsFan ==
    [names |-> {"events"},
     values |-> [name \in {"events"} |->
                    {[project |-> "x", date |-> "d1"], [project |-> "y", date |-> "d1"],
                     [project |-> "y", date |-> "d2"]}],
     partials |-> [name \in {"events"} |-> {[project |-> "y"], [date |-> "d2"]}],
     keys |-> {<<"x">>}]

\* the store as a completed append of one event left it, its version markers
\* numbered below the ones the store hands out from here on
InitFan ==
    /\ kv = KvSet(KvSet(KvSet([k \in {} |-> EmptyObject],
                    <<"events", IdOf(1)>>, [project |-> "x", date |-> "d1"], ToString(-2)),
                <<"events" \o secondaryIndexSuffix, "by-project", "x", "d1", "*", IdOf(1)>>,
                EmptyObject, ToString(-1)),
            <<"events" \o secondaryIndexSuffix, "by-date", "d1", IdOf(1)>>,
            EmptyObject, ToString(0))
    /\ clock = 0
    /\ nextId = 2
    /\ proc = [p \in Procs |-> NoFrame]
    /\ request = NoRequest

\* one operation whose index calls may fail, with the other calls of a rejected
\* fan-out left to take effect
NextFan ==
    \/ proc["p1"].pc \notin {"done", "failed"} /\ Write("p1", RequestsFan)
    \/ \E key \in proc["p1"].pending : promiseAllThrows("p1", key)
    \/ \E key \in proc["p1"].pending : settle("p1", key)

SpecFan == InitFan /\ [][NextFan]_vars

(* ------------------------------ the server ---------------------------- *)
\* the registered collections in the order of the configuration object, and the
\* index names of a collection in the order of Object.keys
collectionNames == <<"projects", "tasks", "notifications">>
subCollectionNames(name) == IF name = "tasks" THEN <<"by-project">> ELSE <<>>

\* options.internal: false by default, true for notifications
internal(name) == name = "notifications"

\* RESTfulCollections.collections: every configured collection under its name
collections ==
    [name \in {collectionNames[i] : i \in 1..Len(collectionNames)} |->
        [name |-> name,
         options |-> [internal |-> internal(name),
                      secondaryIndexes |-> secondaryIndexes(name)]]]

\* the segments of a route path: a literal, a parameter :name, which matches any
\* one segment, and a parameter :name{.+$}, which matches the rest of the path
Literal(s) == [kind |-> "literal", name |-> s]
Param(s) == [kind |-> "param", name |-> s]
RestParam(s) == [kind |-> "rest", name |-> s]

Route(method, path, collection, handler, subCollectionName) ==
    [method |-> method, path |-> path, collection |-> collection,
     handler |-> handler, subCollectionName |-> subCollectionName]

\* createHonoRoutes(hono, collection): the routes in the order they are registered.
\* The index name is interpolated behind a colon: /name/:indexName/:key{.+$}
createHonoRoutes(name) ==
    <<Route("GET", <<Literal(name)>>, name, "list", "")>>
    \o [i \in 1..Len(subCollectionNames(name)) |->
            Route("GET",
                  <<Literal(name), Param(subCollectionNames(name)[i]), RestParam("key")>>,
                  name, "listSubcollection", subCollectionNames(name)[i])]
    \o <<Route("GET", <<Literal(name), Param("id")>>, name, "get", ""),
         Route("POST", <<Literal(name)>>, name, "append", ""),
         Route("PUT", <<Literal(name), Param("id")>>, name, "replace", ""),
         Route("PATCH", <<Literal(name), Param("id")>>, name, "merge", ""),
         Route("DELETE", <<Literal(name), Param("id")>>, name, "delete", "")>>

\* buildServer() without the filter on options.internal
RECURSIVE buildRoutesOfAll(_)
buildRoutesOfAll(names) ==
    IF names = <<>> THEN <<>>
    ELSE createHonoRoutes(Head(names)) \o buildRoutesOfAll(Tail(names))

\* buildServer(): the routes of every collection that is not internal
RECURSIVE buildRoutes(_)
buildRoutes(names) ==
    IF names = <<>> THEN <<>>
    ELSE (IF internal(Head(names)) THEN <<>> ELSE createHonoRoutes(Head(names)))
         \o buildRoutes(Tail(names))

buildServer == buildRoutes(collectionNames)

\* a path is the sequence of the segments between its slashes
MatchSegment(segment, s) ==
    IF segment.kind = "literal" THEN s = segment.name ELSE s # ""

\* the router: a route path matches a request path segment by segment; a trailing
\* :name{.+$} takes all the remaining segments, which must not join to ""
MatchPath(routePath, path) ==
    IF Last(routePath).kind = "rest"
    THEN /\ Len(path) >= Len(routePath)
         /\ \A i \in 1..(Len(routePath) - 1) : MatchSegment(routePath[i], path[i])
         /\ (Len(path) > Len(routePath) \/ path[Len(path)] # "")
    ELSE /\ Len(path) = Len(routePath)
         /\ \A i \in 1..Len(routePath) : MatchSegment(routePath[i], path[i])

NoRoute == Route("", <<>>, "", "", "")

\* the handler the router calls: that of the first registered route that matches
MatchRoute(method, path) ==
    LET matching == {i \in 1..Len(buildServer) :
                        /\ buildServer[i].method = method
                        /\ MatchPath(buildServer[i].path, path)}
    IN IF matching = {} THEN NoRoute
       ELSE buildServer[CHOOSE i \in matching : \A j \in matching : i <= j]

\* c.req.param("key").split("/").filter((part) => part.length > 0)
KeyParts(path) == SelectSeq(SubSeq(path, 3, Len(path)), LAMBDA part : part # "")

\* the server handles the request: the handler of the matched route calls its
\* operation with the parameters of the path and the body
fetch(p) ==
    LET route == MatchRoute(request.method, request.path)
    IN \/ /\ route.handler = "list"
          /\ list(p, route.collection)
       \/ /\ route.handler = "listSubcollection"
          /\ listSubcollection(p, route.collection, route.subCollectionName,
                               KeyParts(request.path))
       \/ /\ route.handler = "get"
          /\ get(p, route.collection, request.path[2])
       \/ /\ route.handler = "append"
          /\ append(p, route.collection, request.body)
       \/ /\ route.handler = "replace"
          /\ replace(p, route.collection, request.path[2], request.body)
       \/ /\ route.handler = "merge"
          /\ merge(p, route.collection, request.path[2], request.body)
       \/ /\ route.handler = "delete"
          /\ delete(p, route.collection, request.path[2])

\* buildResponse that passes a null result on as a JSON body
buildResponseNullIsJson(response, status) ==
    [status |-> IF status = None THEN 200 ELSE status[1], body |-> response]

\* buildResponse(c, responseValuePromise, status): the awaited result is null, or
\* Some value; c.body(null, 404) for null, c.json(response, status ?? 200) otherwise
buildResponse(response, status) ==
    IF response = None
    THEN [status |-> 404, body |-> None]
    ELSE [status |-> IF status = None THEN 200 ELSE status[1], body |-> response]

\* buildEmptyResponse: c.body(null, 404) for null, c.body(null, status ?? 204) otherwise
buildEmptyResponse(response, status) ==
    IF response = None
    THEN [status |-> 404, body |-> None]
    ELSE [status |-> IF status = None THEN 204 ELSE status[1], body |-> None]

\* the value the operation of caller p has resolved to: list and listSubcollection
\* resolve to an array, which is never null, the others to a record or to null
Resolved(p) ==
    IF proc[p].op \in {"list", "listSubcollection"}
    THEN Some(proc[p].result)
    ELSE proc[p].result

\* the response of the handler of the matched route once its operation has returned
Response(p) ==
    LET route == MatchRoute(request.method, request.path)
    IN IF route.handler = "delete" THEN buildEmptyResponse(Resolved(p), None)
       ELSE IF route.handler = "append" THEN buildResponse(Resolved(p), Some(201))
       ELSE buildResponse(Resolved(p), None)

\* the operation caller p has started takes its next store call
Continue(p) ==
    \/ listSubcollectionGet(p)
    \/ kvSet(p)
    \/ kvDelete(p)
    \/ \E key \in proc[p].pending : deleteSecondaryKeys(p, key)
    \/ \E key \in proc[p].pending : appendSecondaryKeys(p, key)
    \/ promiseAll(p)

\* the requests sent to the server
Methods == {"GET", "POST", "PUT", "PATCH", "DELETE"}
Paths ==
    {<<"projects">>, <<"projects", IdOf(1)>>, <<"projects", "by-project", "x">>,
     <<"tasks">>, <<"tasks", IdOf(1)>>, <<"tasks", IdOf(2)>>,
     <<"tasks", "by-project", "x">>, <<"tasks", "by-project", "x", "", "d1">>,
     <<"tasks", "by-project", "y", "d1", "*">>, <<"tasks", "by-date", "x">>,
     <<"notifications">>, <<"notifications", IdOf(2)>>, <<"books">>}
Bodies == {[project |-> "x", date |-> "d1", time |-> "t1"], [project |-> "y", date |-> "d1"]}

\* the server receives one request, repeatedly, on a store that holds one task
InitHttp ==
    /\ kv = StoreOfOneTask
    /\ clock = 0
    /\ nextId = 2
    /\ proc = [p \in Procs |-> NoFrame]
    /\ request \in [method : Methods, path : Paths, body : Bodies]

NextHttp == fetch("p1") \/ Continue("p1")

SpecHttp == InitHttp /\ [][NextHttp]_vars

\* the application operates an internal collection by direct reference:
\* collections.collections.notifications
Direct(p) ==
    LET collection == collections["notifications"]
    IN \/ \E value \in ProjectValues : append(p, collection.name, value)
       \/ promiseAll(p)
       \/ \E id \in Ids : get(p, collection.name, id)
       \/ list(p, collection.name)

\* the server handles a request while the application uses the internal collection
NextInternal == fetch("p1") \/ Continue("p1") \/ Direct("p2")

SpecInternal == InitHttp /\ [][NextInternal]_vars

(* ----------------------------- properties ----------------------------- *)
\* the operation of caller p has returned
Completed(p, op) == proc[p].pc = "done" /\ proc[p].op = op

\* the operation of caller p has returned and had found a primary record
CompletedOn(p, op) == Completed(p, op) /\ proc[p].oldValue # None

\* the primary keys [name, id] and the index entries of the store
PrimaryKeys == {k \in DOMAIN kv : Len(k) = 2 /\ k[1] \in collectionDefs}
IndexEntries == DOMAIN kv \ PrimaryKeys

\* the index entry (indexName, keyParts, id) of collection name
IndexEntry(name, indexName, keyParts, id) ==
    <<name \o "$$secondaryIndex", indexName>> \o keyParts \o <<id>>

\* the index entries of id in index indexName of collection name
EntriesOf(name, indexName, id) ==
    {k \in IndexEntries :
        /\ Len(k) >= 3
        /\ k[1] = name \o "$$secondaryIndex"
        /\ k[2] = indexName
        /\ k[Len(k)] = id}

\* one entry per live record and registered index, at the key its value derives
DerivedEntries ==
    UNION {{IndexEntry(k[1], indexName, keyBuilder(indexName, kv[k].value), k[2]) :
                indexName \in secondaryIndexes(k[1])} : k \in PrimaryKeys}

\* the positions of a response whose element has $$id = id
ElementsFor(response, id) == {i \in 1..Len(response) : response[i]["$$id"] = id}

\* the element carries exactly the fields of value, next to the two metadata fields
SameFields(element, value) ==
    /\ DOMAIN element = DOMAIN value \cup {"$$id", "$$versionstamp"}
    /\ \A f \in DOMAIN value : element[f] = value[f]

\* C1: after every completed operation of a sequence of non-overlapping,
\* non-failing operations, an index entry (indexName, keyParts, id) exists if and
\* only if a primary record exists at id and its value derives keyParts
IndexCorrespondence ==
    proc["p1"].pc \in {"idle", "done"} => IndexEntries = DerivedEntries

\* C1 witness: a replace or merge that left the derived key unchanged has
\* returned and the entry at that key is in the store
IndexCorrespondenceWitness ==
    \E op \in {"replace", "merge"} :
        /\ CompletedOn("p1", op)
        /\ proc["p1"].name = "tasks"
        /\ keyBuilder("by-project", proc["p1"].value)
              = keyBuilder("by-project", proc["p1"].oldValue[1])
        /\ IndexEntry("tasks", "by-project", keyBuilder("by-project", proc["p1"].value),
                      proc["p1"].id) \in IndexEntries

\* C2: after replace(id, R2) on a record with prior value R1 and f(R1) # f(R2),
\* listSubcollection(idx, f(R1)) has no element of id and
\* listSubcollection(idx, f(R2)) has the element of id with value R2
IndexMigration ==
    \A p \in Procs :
        CompletedOn(p, "replace") =>
            \A indexName \in secondaryIndexes(proc[p].name) :
                LET f == proc[p]
                    k1 == keyBuilder(indexName, f.oldValue[1])
                    k2 == keyBuilder(indexName, f.value)
                    l1 == listSubcollectionResult(kv, f.name, indexName, k1)
                    l2 == listSubcollectionResult(kv, f.name, indexName, k2)
                IN k1 # k2 =>
                    /\ ElementsFor(l1, f.id) = {}
                    /\ \E i \in ElementsFor(l2, f.id) : SameFields(l2[i], f.value)

\* C2 witness: a replace that changed the derived key has returned
IndexMigrationWitness ==
    /\ CompletedOn("p1", "replace")
    /\ proc["p1"].name = "tasks"
    /\ keyBuilder("by-project", proc["p1"].value)
          # keyBuilder("by-project", proc["p1"].oldValue[1])

\* C3: after delete(id) on an existing record R, get(id) is not-found, no
\* listSubcollection(idx, keyBuilder[idx](R)) has an element of id and no index
\* entry of id is left in the store
DeleteRemovesAllTraces ==
    \A p \in Procs :
        CompletedOn(p, "delete") =>
            LET f == proc[p]
            IN /\ getResult(kv, f.name, f.id) = None
               /\ \A indexName \in secondaryIndexes(f.name) :
                    /\ ElementsFor(listSubcollectionResult(kv, f.name, indexName,
                            keyBuilder(indexName, f.oldValue[1])), f.id) = {}
                    /\ EntriesOf(f.name, indexName, f.id) = {}

\* C3 witness: a delete of an indexed record has returned while another record
\* with the same derived key is still listed
DeleteRemovesAllTracesWitness ==
    /\ CompletedOn("p1", "delete")
    /\ proc["p1"].name = "tasks"
    /\ listSubcollectionResult(kv, "tasks", "by-project",
            keyBuilder("by-project", proc["p1"].oldValue[1])) # <<>>

\* C4: after append(R) returned with the generated id i, listSubcollection(idx, f(R))
\* has exactly one element with $$id = i, and its fields are those of the stored R
IndexConsistencyOnAppend ==
    \A p \in Procs :
        Completed(p, "append") =>
            \A indexName \in secondaryIndexes(proc[p].name) :
                LET f == proc[p]
                    l == listSubcollectionResult(kv, f.name, indexName,
                            keyBuilder(indexName, f.value))
                IN /\ Cardinality(ElementsFor(l, f.id)) = 1
                   /\ kv[<<f.name, f.id>>].value = f.value
                   /\ \A i \in ElementsFor(l, f.id) :
                        SameFields(l[i], kv[<<f.name, f.id>>].value)

\* C4 witness: an append to the indexed collection has returned and its key
\* lists two records
IndexConsistencyOnAppendWitness ==
    /\ Completed("p1", "append")
    /\ proc["p1"].name = "tasks"
    /\ Len(listSubcollectionResult(kv, "tasks", "by-project",
            keyBuilder("by-project", proc["p1"].value))) = 2

\* C5: replace, merge and delete called with an id that has no primary record
\* return null in that step and leave every key of the store unchanged
NotFoundNoMutation ==
    [][\A p \in Procs :
        ( /\ Ready(p)
          /\ proc'[p] # proc[p]
          /\ proc'[p].op \in {"replace", "merge", "delete"}
          /\ <<proc'[p].name, proc'[p].id>> \notin DOMAIN kv )
        => ( /\ proc'[p].pc = "done"
             /\ proc'[p].result = None
             /\ kv' = kv )]_vars

\* C5 witness: one of the three has returned not-found on a store that holds
\* records and index entries
NotFoundNoMutationWitness ==
    /\ \E op \in {"replace", "merge", "delete"} : Completed("p1", op)
    /\ proc["p1"].oldValue = None
    /\ PrimaryKeys # {}
    /\ IndexEntries # {}

\* C6: right after append(R) returned A, get(A.$$id) returns a result equal to A,
\* version marker included
AppendGetRoundTrip ==
    \A p \in Procs :
        Completed(p, "append") =>
            /\ proc[p].result # None
            /\ getResult(kv, proc[p].name, proc[p].result[1]["$$id"]) = proc[p].result

\* C6 witness: an append has returned after the store handed out a later version
\* marker for its index entry
AppendGetRoundTripWitness ==
    /\ Completed("p1", "append")
    /\ proc["p1"].name = "tasks"
    /\ proc["p1"].result[1]["$$versionstamp"] # ToString(clock)
    /\ IndexEntries # {}

\* C7: merge(id, P) on a record with value O stores and returns the value with the
\* fields of O and of P, P's value for every field of P, O's value for the others
MergeShallowUnion ==
    \A p \in Procs :
        CompletedOn(p, "merge") =>
            LET O == proc[p].oldValue[1]
                P == proc[p].mergeValue
                v == kv[<<proc[p].name, proc[p].id>>].value
            IN /\ DOMAIN v = DOMAIN O \cup DOMAIN P
               /\ \A f \in DOMAIN P : v[f] = P[f]
               /\ \A f \in DOMAIN O \ DOMAIN P : v[f] = O[f]
               /\ proc[p].result # None
               /\ SameFields(proc[p].result[1], v)

\* C7 witness: a merge has returned whose partial value overrode a field, added
\* a field and left a field of the old value alone
MergeShallowUnionWitness ==
    /\ CompletedOn("p1", "merge")
    /\ LET O == proc["p1"].oldValue[1]
           P == proc["p1"].mergeValue
       IN /\ \E f \in DOMAIN P \cap DOMAIN O : P[f] # O[f]
          /\ DOMAIN P \ DOMAIN O # {}
          /\ DOMAIN O \ DOMAIN P # {}

\* the value O with the fields of P laid over it
Overridden(O, P) ==
    [f \in DOMAIN O \cup DOMAIN P |-> IF f \in DOMAIN P THEN P[f] ELSE O[f]]

\* C8: after merge(id, P) on a record with old value O, the only index entry of id
\* in every index is the one at the key derived from O overridden by P
MergeIndexFromMerged ==
    \A p \in Procs :
        CompletedOn(p, "merge") =>
            \A indexName \in secondaryIndexes(proc[p].name) :
                EntriesOf(proc[p].name, indexName, proc[p].id)
                  = {IndexEntry(proc[p].name, indexName,
                        keyBuilder(indexName,
                            Overridden(proc[p].oldValue[1], proc[p].mergeValue)),
                        proc[p].id)}

\* C8 witness: a merge has returned whose partial value held only one of the
\* fields the key builder reads, and changed it
MergeIndexFromMergedWitness ==
    /\ CompletedOn("p1", "merge")
    /\ proc["p1"].name = "tasks"
    /\ DOMAIN proc["p1"].mergeValue = {"project"}
    /\ proc["p1"].mergeValue["project"] # proc["p1"].oldValue[1]["project"]

\* C9: listSubcollection never fails on an index entry whose primary record is
\* missing: the step that fetches the record of an entry goes on with the loop
\* or returns, and adds no element when the record is absent at that moment
ListSkipsMissingPrimary ==
    [][\A p \in Procs :
        (proc[p].pc = "fetch" /\ proc'[p] # proc[p]) =>
            LET id == Last(proc[p].hits[proc[p].pos])
            IN /\ proc'[p].pc \in {"fetch", "done"}
               /\ <<proc[p].name, id>> \notin DOMAIN kv
                    => proc'[p].result = proc[p].result
               /\ <<proc[p].name, id>> \in DOMAIN kv
                    => /\ Len(proc'[p].result) = Len(proc[p].result) + 1
                       /\ proc'[p].result[Len(proc'[p].result)]["$$id"] = id]_vars

\* C9 witness: a listing has returned that had scanned an index entry and
\* returned no element for its id
ListSkipsMissingPrimaryWitness ==
    /\ Completed("p2", "listSubcollection")
    /\ \E i \in 1..Len(proc["p2"].hits) :
          ElementsFor(proc["p2"].result, Last(proc["p2"].hits[i])) = {}

\* C10: in every reachable state, every element that listSubcollection(idx, K)
\* returns is a record whose current primary value derives a key that K is a
\* prefix of
ListedRecordsDeriveKey ==
    \A name \in collectionDefs :
        \A indexName \in secondaryIndexes(name), K \in KeyPrefixes :
            LET l == listSubcollectionResult(kv, name, indexName, K)
            IN \A i \in 1..Len(l) :
                /\ <<name, l[i]["$$id"]>> \in DOMAIN kv
                /\ IsPrefix(K, keyBuilder(indexName, kv[<<name, l[i]["$$id"]>>].value))

\* no operation is in progress
Quiescent == \A p \in Procs : proc[p].pc \in {"idle", "done"}

\* C11 as stated: the index entries correspond 1:1 to the live records in every
\* quiescent state reached by interleaved replace/merge/delete on the same id
IndexCorrespondenceAfterRace == Quiescent => IndexEntries = DerivedEntries

\* every operation run so far was a replace or merge whose old and new value
\* derive the same key
SameKeyRewrites ==
    \A p \in Procs :
        proc[p].op # "" =>
            /\ proc[p].op \in {"replace", "merge"}
            /\ proc[p].oldValue # None =>
                 keyBuilder("by-project", proc[p].oldValue[1])
                    = keyBuilder("by-project", proc[p].value)

\* C11 amended: the correspondence holds in every quiescent state reached by
\* interleaved replace/merge operations on the same id that keep the derived key
IndexCorrespondenceSameKey ==
    (Quiescent /\ SameKeyRewrites) => IndexEntries = DerivedEntries

\* C11 witness: two rewrites of the same record that keep the key have returned,
\* both having read the record before either wrote it
IndexCorrespondenceSameKeyWitness ==
    /\ SameKeyRewrites
    /\ \A p \in Procs :
          /\ proc[p].pc = "done"
          /\ proc[p].id = IdOf(1)
          /\ proc[p].getVersionstamp = ToString(-1)
    /\ proc["p1"].value # proc["p2"].value

\* C12 as stated: whatever fields the bodies have, every result of get, list,
\* listSubcollection, append, replace, merge and delete has $$id equal to the id of
\* the record's primary key and $$versionstamp equal to the store's version marker
\* of that read or write
MetadataNeverCollides ==
    \A p \in Procs :
        proc[p].pc = "done" =>
            LET f == proc[p]
            IN /\ (f.op \in {"append", "replace", "merge"} /\ f.result # None) =>
                    /\ f.result[1]["$$id"] = f.id
                    /\ f.result[1]["$$versionstamp"] = f.setVersionstamp
               /\ (f.op = "delete" /\ f.result # None) =>
                    /\ f.result[1]["$$id"] = f.id
                    /\ f.result[1]["$$versionstamp"] = f.getVersionstamp
               /\ (f.op = "get" /\ f.result # None) =>
                    /\ f.result[1]["$$id"] = f.id
                    /\ f.result[1]["$$versionstamp"] = kv[<<f.name, f.id>>].versionstamp
               /\ f.op \in {"list", "listSubcollection"} =>
                    /\ Len(f.result) = Len(f.hits)
                    /\ \A i \in 1..Len(f.result) :
                          /\ f.result[i]["$$id"] = Last(f.hits[i])
                          /\ f.result[i]["$$versionstamp"]
                                = kv[<<f.name, Last(f.hits[i])>>].versionstamp

\* C13: when the primary write of append(R) reports non-success, append throws
\* instead of returning a result, and no index entry of the generated id is
\* written or left to be written
AppendWriteFailure ==
    [][\A p \in Procs :
        ( /\ Ready(p)
          /\ proc'[p] # proc[p]
          /\ proc'[p].op = "append"
          /\ <<proc'[p].name, proc'[p].id>> \notin DOMAIN kv' )
        => ( /\ proc'[p].pc = "failed"
             /\ proc'[p].result = None
             /\ proc'[p].pending = {}
             /\ {k \in DOMAIN kv' : Last(k) = proc'[p].id} = {} )]_vars

\* C13 witness: an append has thrown at its primary write, on a store that holds
\* another record and its index entry
AppendWriteFailureWitness ==
    /\ proc["p1"].op = "append"
    /\ proc["p1"].pc = "failed"
    /\ <<proc["p1"].name, proc["p1"].id>> \notin DOMAIN kv
    /\ PrimaryKeys # {}
    /\ IndexEntries # {}

\* C14: when the primary write of replace or merge reports non-success, the
\* operation throws and issues no index delete or write: the store, index entries
\* included, is exactly as before
RewriteWriteFailure ==
    [][\A p \in Procs :
        ( /\ proc[p].pc = "set"
          /\ proc'[p].pc = "failed" )
        => ( /\ proc'[p].op \in {"replace", "merge"}
             /\ proc'[p].result = None
             /\ proc'[p].pending = {}
             /\ kv' = kv )]_vars

\* C14 witness: a replace or merge of an existing record to a value that derives
\* another key has thrown at its primary write; the record and its entry stand
RewriteWriteFailureWitness ==
    \E op \in {"replace", "merge"} :
        LET f == proc["p1"]
        IN /\ f.op = op
           /\ f.pc = "failed"
           /\ f.setVersionstamp = ""
           /\ f.oldValue # None
           /\ keyBuilder("by-project", f.value) # keyBuilder("by-project", f.oldValue[1])
           /\ kv[<<f.name, f.id>>].value = f.oldValue[1]
           /\ EntriesOf(f.name, "by-project", f.id)
                = {IndexEntry(f.name, "by-project",
                        keyBuilder("by-project", f.oldValue[1]), f.id)}

\* C15: when an index write or delete fails after the primary mutation succeeded,
\* the operation throws, the primary record keeps its mutated state and the store
\* is left as it is: no compensating write, no retry
PartialIndexFailure ==
    [][\A p \in Procs :
        ( /\ proc[p].pc \in {"deleteSecondaryKeys", "appendSecondaryKeys"}
          /\ proc'[p].pc = "failed" )
        => LET f == proc'[p]
           IN /\ f.result = None
              /\ kv' = kv
              /\ f.op = "delete" => <<f.name, f.id>> \notin DOMAIN kv'
              /\ f.op \in {"append", "replace", "merge"} =>
                    /\ <<f.name, f.id>> \in DOMAIN kv'
                    /\ kv'[<<f.name, f.id>>].value = f.value
                    /\ kv'[<<f.name, f.id>>].versionstamp = f.setVersionstamp]_vars

\* C15 witness: a replace that changed the derived key has thrown in its index
\* fan-out; the primary record holds the new value, the index does not match it
PartialIndexFailureWitness ==
    LET f == proc["p1"]
    IN /\ f.op = "replace"
       /\ f.pc = "failed"
       /\ f.setVersionstamp # ""
       /\ kv[<<f.name, f.id>>].value = f.value
       /\ f.value # f.oldValue[1]
       /\ IndexEntries # DerivedEntries

\* C16: get(id) returns null exactly when no primary record exists at
\* (collection, id), otherwise the stored value with $$id and the key's current
\* version marker; it returns, never throws, for an absent id
GetNotFoundOrRecord ==
    [][\A p \in Procs :
        ( /\ Ready(p)
          /\ proc'[p] # proc[p]
          /\ proc'[p].op = "get" )
        => LET f == proc'[p]
               key == <<f.name, f.id>>
           IN /\ f.pc = "done"
              /\ f.result = None <=> key \notin DOMAIN kv
              /\ key \in DOMAIN kv =>
                    /\ SameFields(f.result[1], kv[key].value)
                    /\ f.result[1]["$$id"] = f.id
                    /\ f.result[1]["$$versionstamp"] = kv[key].versionstamp]_vars

\* C16 witness: get has returned null for an id whose record was deleted, on a
\* store that still holds another record
GetNotFoundOrRecordWitness ==
    /\ Completed("p1", "get")
    /\ proc["p1"].result = None
    /\ proc["p1"].id = IdOf(1)
    /\ <<proc["p1"].name, IdOf(2)>> \in DOMAIN kv

\* C17: delete(id) on an existing record returns the record as it was before the
\* deletion: the value and the version marker the primary key had when the primary
\* delete removed it, with $$id = id
DeleteReturnsDeleted ==
    [][\A p \in Procs :
        /\ ( /\ proc[p].pc = "kvDelete"
             /\ proc'[p].pc = "deleteSecondaryKeys" )
           => LET key == <<proc[p].name, proc[p].id>>
              IN /\ key \in DOMAIN kv
                 /\ key \notin DOMAIN kv'
                 /\ proc'[p].oldValue = Some(kv[key].value)
                 /\ proc'[p].getVersionstamp = kv[key].versionstamp
        /\ ( /\ proc[p].pc = "deleteSecondaryKeys"
             /\ proc'[p].pc = "done"
             /\ proc'[p].op = "delete" )
           => LET f == proc'[p]
              IN /\ f.oldValue = proc[p].oldValue
                 /\ f.getVersionstamp = proc[p].getVersionstamp
                 /\ f.result # None
                 /\ SameFields(f.result[1], f.oldValue[1])
                 /\ f.result[1]["$$id"] = f.id
                 /\ f.result[1]["$$versionstamp"] = f.getVersionstamp]_vars

\* C17 witness: a delete has returned a record that had been rewritten before, so
\* that its marker is not the one its append was given
DeleteReturnsDeletedWitness ==
    /\ CompletedOn("p1", "delete")
    /\ proc["p1"].result # None
    /\ proc["p1"].id = IdOf(1)
    /\ proc["p1"].result[1]["$$versionstamp"] = ToString(3)
    /\ <<proc["p1"].name, proc["p1"].id>> \notin DOMAIN kv

\* C18: list() returns exactly one element per live primary record of the
\* collection, none omitted and none duplicated, in ascending order of id, each
\* with the value and the version marker of its own key
ListAllRecordsInOrder ==
    \A p \in Procs :
        Completed(p, "list") =>
            LET response == proc[p].result
                live == {k \in PrimaryKeys : k[1] = proc[p].name}
            IN /\ Len(response) = Cardinality(live)
               /\ \A k \in live :
                     \E i \in 1..Len(response) :
                        /\ response[i]["$$id"] = k[2]
                        /\ response[i]["$$versionstamp"] = kv[k].versionstamp
                        /\ SameFields(response[i], kv[k].value)
               /\ \A i, j \in 1..Len(response) :
                     i < j => Rank(response[i]["$$id"]) < Rank(response[j]["$$id"])

\* C18 witness: list has returned two records whose markers are out of step with
\* their ids, the first record having been rewritten after the second was appended
ListAllRecordsInOrderWitness ==
    /\ Completed("p1", "list")
    /\ Len(proc["p1"].result) = 2
    /\ proc["p1"].name = "projects"
    /\ kv[<<"projects", IdOf(1)>>].versionstamp = ToString(3)

\* K is a component-wise prefix of key: whole components compared for equality
ComponentPrefix(K, key) ==
    /\ Len(K) <= Len(key)
    /\ \A i \in 1..Len(K) : K[i] = key[i]

\* the live records of collection name whose value derives a key that K prefixes
RecordsUnder(name, indexName, K) ==
    {k \in PrimaryKeys :
        k[1] = name /\ ComponentPrefix(K, keyBuilder(indexName, kv[k].value))}

\* response holds exactly the records S, one element per record
ExactlyRecords(response, S) ==
    /\ Len(response) = Cardinality(S)
    /\ \A k \in S :
          \E i \in 1..Len(response) :
             /\ response[i]["$$id"] = k[2]
             /\ response[i]["$$versionstamp"] = kv[k].versionstamp
             /\ SameFields(response[i], kv[k].value)

\* key parts that match a stored component only as a string prefix, and key parts
\* longer than any derived key
ProbeKeys == {<<"x", "d">>, <<"x", "d1", "t">>, <<"x", "d1", "*", IdOf(1)>>}

\* C19: in every quiescent state of non-overlapping, non-failing operations,
\* listSubcollection(idx, K) returns exactly the live records whose derived key
\* has K as a component-wise prefix, one element per id, however many components
\* follow K
SubcollectionPrefix ==
    Quiescent =>
        /\ \A K \in KeyPrefixes \cup ProbeKeys :
              ExactlyRecords(listSubcollectionResult(kv, "tasks", "by-project", K),
                             RecordsUnder("tasks", "by-project", K))
        /\ \A p \in Procs :
              Completed(p, "listSubcollection") =>
                 ExactlyRecords(proc[p].result,
                    RecordsUnder(proc[p].name, proc[p].subcollection, proc[p].keys))

\* C19 witness: a scan with a one-part key has returned one of two live records,
\* two components following the key parts in its entry; the other record derives
\* a key that starts otherwise
SubcollectionPrefixWitness ==
    /\ Completed("p1", "listSubcollection")
    /\ Len(proc["p1"].keys) = 1
    /\ Len(proc["p1"].result) = 1
    /\ Cardinality(PrimaryKeys) = 2
    /\ Cardinality(IndexEntries) = 2

\* C20 as stated: a GET on /{name}/{indexName}/{key...} of a collection with
\* indexes calls listSubcollection with the index named by the second segment,
\* for every registered index and for no other second segment, and passes the
\* non-empty segments of {key...} as key parts
RoutingByIndexName ==
    \A p \in Procs :
        ( /\ proc[p].op # ""
          /\ request.method = "GET"
          /\ Len(request.path) >= 3
          /\ request.path[1] \in collectionDefs
          /\ secondaryIndexes(request.path[1]) # {} )
        => /\ request.path[2] \in secondaryIndexes(request.path[1])
           /\ proc[p].op = "listSubcollection"
           /\ proc[p].name = request.path[1]
           /\ proc[p].subcollection = request.path[2]
           /\ proc[p].keys = KeyParts(request.path)

\* C21: GET /{name}/{id}, PUT and PATCH answer 404 exactly when the operation
\* returned null and 200 with the record otherwise; DELETE answers 404 exactly when
\* delete returned null and 204 with an empty body otherwise; POST answers 201 with
\* the appended record; GET /{name} answers 200 with an array
StatusMapping ==
    \A p \in Procs :
        proc[p].pc = "done" =>
            LET f == proc[p]
                r == Response(p)
            IN /\ f.op \in {"get", "replace", "merge"} =>
                    /\ r.status = 404 <=> f.result = None
                    /\ f.result # None => (r.status = 200 /\ r.body = f.result)
               /\ f.op = "delete" =>
                    /\ r.status = 404 <=> f.result = None
                    /\ f.result # None => r.status = 204
                    /\ r.body = None
               /\ f.op = "append" =>
                    /\ f.result # None
                    /\ r.status = 201
                    /\ r.body = f.result
               /\ f.op = "list" =>
                    /\ r.status = 200
                    /\ r.body = Some(f.result)

\* C21 witness: a DELETE of the stored task has been answered 204
StatusMappingWitness ==
    /\ request.method = "DELETE"
    /\ Completed("p1", "delete")
    /\ proc["p1"].result # None
    /\ Response("p1").status = 204
    /\ <<"tasks", IdOf(1)>> \notin DOMAIN kv

\* C22: buildServer registers routes for a collection if and only if its internal
\* flag is false: the server never operates an internal collection, while every
\* configured collection is in the collections map under its name and is operated
\* by direct reference
InternalNotRouted ==
    /\ \A i \in 1..Len(collectionNames) :
          LET name == collectionNames[i]
          IN /\ name \in DOMAIN collections
             /\ collections[name].name = name
             /\ (\E j \in 1..Len(buildServer) : buildServer[j].collection = name)
                    <=> ~internal(name)
    /\ proc["p1"].op # "" =>
          /\ ~internal(proc["p1"].name)
          /\ proc["p1"].name = request.path[1]
    /\ (proc["p2"].op = "append" /\ proc["p2"].pc = "done") =>
          <<proc["p2"].name, proc["p2"].id>> \in DOMAIN kv

\* C22 witness: a record appended to the internal collection by direct reference
\* is in the store, and the request for it has called no operation
InternalNotRoutedWitness ==
    /\ Completed("p2", "append")
    /\ internal(proc["p2"].name)
    /\ request.method = "GET"
    /\ request.path = <<proc["p2"].name, proc["p2"].id>>
    /\ <<proc["p2"].name, proc["p2"].id>> \in DOMAIN kv
    /\ proc["p1"].op = ""

\* C23 as stated: whatever the configured collection names, the keys list() of a
\* collection scans are exactly the primary keys of that collection: two parts,
\* the collection name and an id
NamespaceIsolation ==
    \A p \in Procs :
        Completed(p, "list") =>
            /\ \A i \in 1..Len(proc[p].hits) :
                  /\ Len(proc[p].hits[i]) = 2
                  /\ proc[p].hits[i][1] = proc[p].name
            /\ Len(proc[p].result)
                  = Cardinality({k \in DOMAIN kv : Len(k) = 2 /\ k[1] = proc[p].name})

\* the index entries a step removes, and those it writes
Removed == {k \in DOMAIN kv \ DOMAIN kv' : Len(k) >= 3}
Written == {k \in DOMAIN kv' : Len(k) >= 3 /\ (k \notin DOMAIN kv \/ kv'[k] # kv[k])}

\* C24: in replace and merge the primary write has completed before any entry of
\* the old record is deleted, and every delete of an old entry has completed
\* before any entry of the new record is written
RewriteStepOrder ==
    [][\A p \in Procs :
        ( /\ proc[p].op \in {"replace", "merge"}
          /\ proc'[p].op = proc[p].op
          /\ Removed \cup Written # {} )
        => LET f == proc[p]
               primary == <<f.name, f.id>>
               old == buildSecondaryKeys(f.name, f.id, f.oldValue[1])
               new == buildSecondaryKeys(f.name, f.id, f.value)
           IN /\ primary \in DOMAIN kv
              /\ kv[primary] = [value |-> f.value, versionstamp |-> f.setVersionstamp]
              /\ Removed \subseteq old
              /\ Written \subseteq new
              /\ Written # {} =>
                    \A k \in old \cap DOMAIN kv : k \in new /\ k \notin f.pending]_vars

\* C24 witness: a replace that changes the keys of both indexes has written the
\* first of its two new entries, the old entries being gone
RewriteStepOrderWitness ==
    LET f == proc["p1"]
    IN /\ f.op = "replace"
       /\ f.pc = "appendSecondaryKeys"
       /\ Cardinality(f.pending) = 1
       /\ buildSecondaryKeys(f.name, f.id, f.oldValue[1])
             \cap buildSecondaryKeys(f.name, f.id, f.value) = {}
       /\ buildSecondaryKeys(f.name, f.id, f.oldValue[1]) \cap DOMAIN kv = {}
       /\ kv[<<f.name, f.id>>].value = f.value

\* C25: during a replace or merge that runs alone and changes the derived key of an
\* index, no state, intermediate ones included, holds two entries of that index
\* with different key parts for the same id
NoTwoEntriesPerIndex ==
    \A k \in PrimaryKeys \cup {<<proc[p].name, proc[p].id>> : p \in Procs} :
        \A indexName \in secondaryIndexes(k[1]) :
            Cardinality(EntriesOf(k[1], indexName, k[2])) <= 1

\* C25 witness: the moment of a key-changing replace at which neither the old nor
\* the new entry of the record is in the index
NoTwoEntriesPerIndexWitness ==
    LET f == proc["p1"]
    IN /\ f.op = "replace"
       /\ f.pc = "appendSecondaryKeys"
       /\ f.pending # {}
       /\ keyBuilder("by-project", f.value) # keyBuilder("by-project", f.oldValue[1])
       /\ EntriesOf(f.name, "by-project", f.id) = {}
       /\ <<f.name, f.id>> \in DOMAIN kv

\* C26: delete removes the primary record before any index entry, and the entries
\* it removes are those derived from the value read before the primary delete;
\* hence while a delete runs alone a live primary record lacks none of its entries
DeleteStepOrder ==
    [][\A p \in Procs :
        proc'[p].op = "delete" =>
            LET f == proc'[p]
                primary == <<f.name, f.id>>
            IN /\ (primary \in DOMAIN kv /\ primary \notin DOMAIN kv') =>
                    /\ f.oldValue = Some(kv[primary].value)
                    /\ Removed = {}
               /\ Removed # {} =>
                    /\ primary \notin DOMAIN kv
                    /\ Removed \subseteq buildSecondaryKeys(f.name, f.id, f.oldValue[1])
               /\ primary \in DOMAIN kv' =>
                    buildSecondaryKeys(f.name, f.id, kv'[primary].value) \subseteq DOMAIN kv'
               /\ Written = {}]_vars

\* C26 witness: a delete has removed the primary record and one of its two index
\* entries
DeleteStepOrderWitness ==
    LET f == proc["p1"]
    IN /\ f.op = "delete"
       /\ f.pc = "deleteSecondaryKeys"
       /\ Cardinality(f.pending) = 1
       /\ <<f.name, f.id>> \notin DOMAIN kv
       /\ Cardinality(EntriesOf(f.name, "by-project", f.id)
                        \cup EntriesOf(f.name, "by-date", f.id)) = 1

\* C27 as stated: the index calls of one operation are issued together, the
\* operation returns only after every one of them has completed, and once the
\* operation has reported the failure of one of them no store mutation it issued
\* takes effect any more
FanOutAwaitedJointly ==
    [][\A p \in Procs :
        /\ ( /\ proc[p].pc \in {"deleteSecondaryKeys", "appendSecondaryKeys"}
             /\ proc'[p].pc = "done" )
           => proc[p].pending = {}
        /\ ( /\ proc[p].pc = "failed"
             /\ proc'[p].pc = "failed"
             /\ proc'[p].op = proc[p].op )
           => kv' = kv]_vars

\* the keys whose presence, value or version marker a step changes
Changed ==
    {k \in DOMAIN kv \cup DOMAIN kv' :
        k \notin DOMAIN kv \/ k \notin DOMAIN kv' \/ kv'[k] # kv[k]}

\* C28: every step that changes the store belongs to an append, replace, merge or
\* delete and changes only the primary key and index entries of that operation's
\* id in its collection; replace and merge leave the set of live ids as it is,
\* append adds exactly one fresh id, delete removes exactly one
MutationFrame ==
    [][Changed # {} =>
        \E p \in Procs :
            LET f == proc'[p]
                primary == <<f.name, f.id>>
            IN /\ f.op \in {"append", "replace", "merge", "delete"}
               /\ \A k \in Changed :
                     /\ Last(k) = f.id
                     /\ k[1] \in {f.name, f.name \o secondaryIndexSuffix}
               /\ f.op \in {"replace", "merge"} => PrimaryKeys' = PrimaryKeys
               /\ f.op = "append" =>
                     IF primary \in Changed
                     THEN primary \notin PrimaryKeys
                          /\ PrimaryKeys' = PrimaryKeys \cup {primary}
                     ELSE PrimaryKeys' = PrimaryKeys
               /\ f.op = "delete" =>
                     IF primary \in Changed
                     THEN primary \in PrimaryKeys
                          /\ PrimaryKeys' = PrimaryKeys \ {primary}
                     ELSE PrimaryKeys' = PrimaryKeys]_vars

\* C28 witness: a delete has returned and another record of the collection, whose
\* value derives the same key, is in place with its index entry
MutationFrameWitness ==
    LET f == proc["p1"]
    IN /\ CompletedOn("p1", "delete")
       /\ f.name = "tasks"
       /\ \E k \in PrimaryKeys :
             /\ k[1] = f.name
             /\ kv[k].value = f.oldValue[1]
       /\ IndexEntries = DerivedEntries

\* the index writes of one operation, issued one after the other
RECURSIVE SetAll(_, _, _)
SetAll(store, keys, stamp) ==
    IF keys = {}
    THEN store
    ELSE LET key == CHOOSE k \in keys : TRUE
         IN SetAll(KvSet(store, key, EmptyObject, ToString(stamp + 1)),
                   keys \ {key}, stamp + 1)

\* the store and its version counter after the operation of frame f has run from
\* start to end on state S with no other operation in between
Sequential(S, f) ==
    LET primary == <<f.name, f.id>>
        found == primary \in DOMAIN S.kv
        oldKeys == IF found
                   THEN buildSecondaryKeys(f.name, f.id, S.kv[primary].value)
                   ELSE {}
        value == IF f.op = "merge" /\ found
                 THEN Spread(S.kv[primary].value, f.mergeValue)
                 ELSE f.value
        newKeys == buildSecondaryKeys(f.name, f.id, value)
        written == KvSet(S.kv, primary, value, ToString(S.clock + 1))
        cleared == [k \in DOMAIN written \ oldKeys |-> written[k]]
    IN CASE f.op = "append" ->
              [kv |-> SetAll(written, newKeys, S.clock + 1),
               clock |-> S.clock + 1 + Cardinality(newKeys)]
         [] f.op \in {"replace", "merge"} /\ found ->
              [kv |-> SetAll(cleared, newKeys, S.clock + 1),
               clock |-> S.clock + 1 + Cardinality(newKeys)]
         [] f.op = "delete" /\ found ->
              [kv |-> [k \in DOMAIN S.kv \ (oldKeys \cup {primary}) |-> S.kv[k]],
               clock |-> S.clock]
         [] OTHER -> S

\* the stores reached by running the two callers' operations one after the other
\* from the initial store, in either order
SequentialStores ==
    LET S0 == [kv |-> StoreOfOneTask, clock |-> 0]
    IN {Sequential(Sequential(S0, proc["p1"]), proc["p2"]).kv,
        Sequential(Sequential(S0, proc["p2"]), proc["p1"]).kv}

\* a store without its version markers
ValuesOf(store) == [k \in DOMAIN store |-> store[k].value]

\* both callers' operations have returned and they targeted different ids
DistinctIdsDone ==
    /\ \A p \in Procs : proc[p].pc = "done"
    /\ proc["p1"].id # proc["p2"].id

\* C29: after two operations on distinct ids, interleaved store call by store
\* call, the keys and values of the store are those reached by running the two
\* operations one after the other, in either order, and index entries correspond
\* one to one to the stored records. Version markers are left out of the
\* comparison: the store hands them out in the order of the calls
DistinctIdsSequentialValues ==
    DistinctIdsDone =>
        /\ \A store \in SequentialStores : ValuesOf(kv) = ValuesOf(store)
        /\ IndexEntries = DerivedEntries

\* C29 witness: an append and a replace that found its record have both returned,
\* on different ids, and their store calls interleaved so that the version
\* markers are those of neither sequential run
DistinctIdsSequentialValuesWitness ==
    /\ DistinctIdsDone
    /\ \E p, q \in Procs :
          /\ proc[p].op = "append"
          /\ proc[q].op = "replace"
          /\ proc[q].oldValue # None
          /\ proc[q].value # proc[q].oldValue[1]
    /\ kv \notin SequentialStores
    /\ ValuesOf(kv) \in {ValuesOf(store) : store \in SequentialStores}

\* C30 as stated: once a delete has returned the deleted record, no state has a
\* primary record at its id, whatever replace or merge overlapped it
DeletedNeverReappears ==
    \A p \in Procs :
        CompletedOn(p, "delete") => <<proc[p].name, proc[p].id>> \notin DOMAIN kv

\* C30 amended: a replace or merge that finds no record at its id returns not
\* found and leaves the store as it is, and a primary record comes into being
\* only by the primary write of a replace or merge that had read a record at that
\* id; so a deleted record reappears only through a replace or merge that read it
\* before the delete removed it
ReappearsOnlyByOverlappingRewrite ==
    [][/\ \A p \in Procs :
            ( /\ proc[p].pc = "idle"
              /\ proc'[p].op \in {"replace", "merge"}
              /\ <<proc'[p].name, proc'[p].id>> \notin DOMAIN kv )
            => /\ proc'[p].pc = "done"
               /\ proc'[p].result = None
               /\ kv' = kv
       /\ \A k \in PrimaryKeys' \ PrimaryKeys :
            \E p \in Procs :
                /\ proc[p].pc = "set"
                /\ proc[p].op \in {"replace", "merge"}
                /\ proc[p].oldValue # None
                /\ k = <<proc[p].name, proc[p].id>>
                /\ kv'[k].value = proc[p].value]_vars

\* C30 witness: a delete has returned the deleted record, and the primary write
\* of a replace that had read the record before put a record back at the id
ReappearsOnlyByOverlappingRewriteWitness ==
    \E p, q \in Procs :
        /\ CompletedOn(p, "delete")
        /\ proc[q].op = "replace"
        /\ proc[q].id = proc[p].id
        /\ proc[q].oldValue # None
        /\ proc[q].setVersionstamp # ""
        /\ <<proc[p].name, proc[p].id>> \in DOMAIN kv
        /\ kv[<<proc[p].name, proc[p].id>>].versionstamp = proc[q].setVersionstamp

\* the primary key an index entry points to: its collection and the id that is
\* the last part of its key
PrimaryOf(entry) ==
    <<SubSeq(entry[1], 1, Len(entry[1]) - Len(secondaryIndexSuffix)), Last(entry)>>

\* C31: while only appends, replaces and merges run, in whatever interleaving,
\* every index entry in every state points to an id whose primary record exists
NoDanglingWithoutDelete ==
    \A entry \in IndexEntries : PrimaryOf(entry) \in PrimaryKeys

\* C31 witness: an append has written its primary record and not yet its index
\* entry, while the other caller's replace or merge of another id has written its
\* new index entry
NoDanglingWithoutDeleteWitness ==
    \E p, q \in Procs :
        /\ proc[p].op = "append"
        /\ proc[p].pc = "appendSecondaryKeys"
        /\ proc[p].pending # {}
        /\ <<proc[p].name, proc[p].id>> \in PrimaryKeys
        /\ proc[q].op \in {"replace", "merge"}
        /\ proc[q].pc = "appendSecondaryKeys"
        /\ proc[q].pending = {}
        /\ proc[q].value # proc[q].oldValue[1]
        /\ IndexEntries = buildSecondaryKeys(proc[q].name, proc[q].id, proc[q].value)

\* C32: with no write under way, every element a listSubcollection has returned
\* equals what get answers for the element's $$id: the value and the version
\* marker are those of the primary record
SubcollectionElementsAsGet ==
    Completed("p1", "listSubcollection") =>
        LET f == proc["p1"]
        IN \A i \in 1..Len(f.result) :
              getResult(kv, f.name, f.result[i]["$$id"]) = Some(f.result[i])

\* C32 witness: a listSubcollection has returned an element found through an
\* index entry whose own version marker is not the primary record's
SubcollectionElementsAsGetWitness ==
    LET f == proc["p1"]
    IN /\ Completed("p1", "listSubcollection")
       /\ Len(f.result) >= 1
       /\ f.hits[1] \in DOMAIN kv
       /\ Last(f.hits[1]) = f.result[1]["$$id"]
       /\ kv[f.hits[1]].versionstamp # f.result[1]["$$versionstamp"]
       /\ kv[<<f.name, f.result[1]["$$id"]>>].versionstamp = f.result[1]["$$versionstamp"]

\* C33: every step of get, list and listSubcollection leaves the store, with its
\* version markers, as it was, whatever the arguments; a listSubcollection on an
\* index name that is not registered returns the empty sequence
ReadsLeaveStore ==
    [][\A p \in Procs :
        ( /\ proc'[p] # proc[p]
          /\ proc'[p].op \in {"get", "list", "listSubcollection"} )
        => /\ kv' = kv
           /\ clock' = clock
           /\ ( /\ proc'[p].op = "listSubcollection"
                /\ proc'[p].subcollection \notin secondaryIndexes(proc'[p].name) )
              => /\ proc'[p].pc = "done"
                 /\ proc'[p].result = <<>>]_vars

\* C33 witness: on a store holding a record and its index entry, untouched since,
\* a listSubcollection on an unregistered index name has returned
ReadsLeaveStoreWitness ==
    LET f == proc["p1"]
    IN /\ Completed("p1", "listSubcollection")
       /\ f.subcollection \notin secondaryIndexes(f.name)
       /\ f.result = <<>>
       /\ proc["p2"].pc = "idle"
       /\ kv = StoreOfOneTask
====
